---- MODULE Spec2Model ----
(***************************************************************************)
(* Session state machine of the voice translator.                          *)
(*                                                                         *)
(* app.py  : "Voice Translator Pro" (status, current result, bounded       *)
(*           history, favorites, settings).                                *)
(* app2.py : the speak-aloud variant (status, result text, history).       *)
(*                                                                         *)
(* Both are Streamlit scripts: every user interaction re-runs main() from   *)
(* top to bottom with at most one button reading True.  One action of this  *)
(* model is one such run (the speech translation is split at its status     *)
(* updates).  Texts are sequences of one-character strings.                 *)
(***************************************************************************)
EXTENDS Integers, Sequences, FiniteSets, TLC

VARIABLES app_state, session_state, pc, frame, now, raised, app2_state, pc2, frame2

vars == <<app_state, session_state, pc, frame, now, raised, app2_state, pc2, frame2>>

app_vars == <<app_state, session_state, pc, frame, raised>>

app2_vars == <<app2_state, pc2, frame2>>

(***************************************************************************)
(* Bounds of the model.                                                    *)
(***************************************************************************)
\* caps of total_translations in Spec, SpecHistory, SpecSearch and SpecSettings
MaxTranslations == 2

MaxTranslationsHistory == 6

MaxTranslationsSearch == 3

MaxTranslationsSettings == 1

\* cap of the length of app2's history
MaxTranslations2 == 2

MaxFavorites == 1

\* the last second of the clock
MaxClock == 1

(***************************************************************************)
(* Program constants.                                                      *)
(***************************************************************************)
DefaultMaxHistory == 10

DefaultSpeechTimeout == 5

MinMaxHistory == 5

MaxMaxHistory == 100

MinSpeechTimeout == 1

MaxSpeechTimeout == 15

(***************************************************************************)
(* Python str helpers.                                                     *)
(***************************************************************************)
Empty == <<>>

IsSpace(c) == c = " "

LowerCase == <<"a","b","c","d","e","f","g","h","i","j","k","l","m",
               "n","o","p","q","r","s","t","u","v","w","x","y","z">>

UpperCase == <<"A","B","C","D","E","F","G","H","I","J","K","L","M",
               "N","O","P","Q","R","S","T","U","V","W","X","Y","Z">>

Lower(c) ==
    IF \E i \in 1..Len(UpperCase) : UpperCase[i] = c
    THEN LowerCase[CHOOSE i \in 1..Len(UpperCase) : UpperCase[i] = c]
    ELSE c

Upper(c) ==
    IF \E i \in 1..Len(LowerCase) : LowerCase[i] = c
    THEN UpperCase[CHOOSE i \in 1..Len(LowerCase) : LowerCase[i] = c]
    ELSE c

\* str.lower()
lower(s) == [i \in 1..Len(s) |-> Lower(s[i])]

\* str.capitalize(): first character upper-cased, the rest lower-cased
capitalize(s) == [i \in 1..Len(s) |-> IF i = 1 THEN Upper(s[i]) ELSE Lower(s[i])]

RECURSIVE lstrip(_)
lstrip(s) ==
    IF s = Empty THEN Empty
    ELSE IF IsSpace(Head(s)) THEN lstrip(Tail(s)) ELSE s

RECURSIVE rstrip(_)
rstrip(s) ==
    IF s = Empty THEN Empty
    ELSE IF IsSpace(s[Len(s)]) THEN rstrip(SubSeq(s, 1, Len(s) - 1)) ELSE s

\* str.strip()
strip(s) == rstrip(lstrip(s))

\* Python's "sub in s" on strings
Contains(s, sub) ==
    \E k \in 0..(Len(s) - Len(sub)) : SubSeq(s, k + 1, k + Len(sub)) = sub

(***************************************************************************)
(* Language directory.  LANGUAGES is googletrans' code -> name table, in    *)
(* its order; two of its codes ("iw", "he") carry the same name.           *)
(***************************************************************************)
english == <<"e","n","g","l","i","s","h">>

spanish == <<"s","p","a","n","i","s","h">>

hebrew == <<"h","e","b","r","e","w">>

LANGUAGES ==
    << << <<"e","n">>, english >>,
       << <<"i","w">>, hebrew >>,
       << <<"e","s">>, spanish >>,
       << <<"h","e">>, hebrew >> >>

LanguageNames == {LANGUAGES[i][2] : i \in 1..Len(LANGUAGES)}

LanguageCodes == {LANGUAGES[i][1] : i \in 1..Len(LANGUAGES)}

\* {name: code for code, name in LANGUAGES.items()}: the last code of a name wins
language_mapping ==
    [n \in LanguageNames |->
        LET last == CHOOSE i \in 1..Len(LANGUAGES) :
                        /\ LANGUAGES[i][2] = n
                        /\ \A j \in 1..Len(LANGUAGES) : LANGUAGES[j][2] = n => j <= i
        IN  LANGUAGES[last][1]]

\* {code: name for name, code in language_mapping.items()}
language_code_to_name ==
    [c \in {language_mapping[n] : n \in LanguageNames} |->
        CHOOSE n \in LanguageNames : language_mapping[n] = c]

get_language_code(language_name) ==
    IF lower(language_name) \in DOMAIN language_mapping
    THEN language_mapping[lower(language_name)]
    ELSE language_name

\* variant: the name is returned as the table spells it
get_language_name_as_stored(language_code) ==
    IF language_code \in DOMAIN language_code_to_name
    THEN language_code_to_name[language_code]
    ELSE language_code

get_language_name(language_code) ==
    capitalize(IF language_code \in DOMAIN language_code_to_name
               THEN language_code_to_name[language_code]
               ELSE language_code)

(***************************************************************************)
(* State of app.py.                                                        *)
(*   app_state      st.session_state.app_state                             *)
(*   session_state  the widgets' values kept by Streamlit across runs      *)
(*   pc, frame      position and locals of a translate_speech() in flight  *)
(*   raised         the uncaught exception that ended the last script run  *)
(*   now            the wall clock, in seconds                             *)
(* translated_text is Empty for "" and <<r>> for the dict r.               *)
(***************************************************************************)
theme_light == <<"l","i","g","h","t">>

theme_dark == <<"d","a","r","k">>

ThemeOptions == << <<"L","i","g","h","t">>, <<"D","a","r","k">> >>

DefaultSettings ==
    [max_history |-> DefaultMaxHistory,
     speech_timeout |-> DefaultSpeechTimeout,
     theme |-> theme_light,
     show_stats |-> TRUE]

InitAppState ==
    [is_translating |-> FALSE,
     status |-> "Ready to translate",
     status_class |-> "status-ready",
     translated_text |-> Empty,
     conversation_history |-> <<>>,
     start_time |-> 0,
     total_translations |-> 0,
     favorites |-> <<>>,
     settings |-> DefaultSettings]

\* the widgets as first rendered: selectbox defaults (lines 368, 380), an empty
\* text area and search box, the settings widgets showing the settings
InitSessionState ==
    [from_lang_select |-> english,
     to_lang_select |-> spanish,
     text_input |-> Empty,
     search_term |-> Empty,
     max_history_setting |-> DefaultMaxHistory,
     speech_timeout_setting |-> DefaultSpeechTimeout,
     theme_setting |-> ThemeOptions[1],
     show_stats_setting |-> TRUE]

NoFrame == [spoken_text |-> Empty, timestamp |-> 0]

\* lines 407-408, 432-433
current_from_lang == get_language_code(session_state.from_lang_select)

current_to_lang == get_language_code(session_state.to_lang_select)

(***************************************************************************)
(* State of app2.py: st.session_state.{is_translating, status,             *)
(* translated_text, conversation_history} and its two selectboxes, which     *)
(* start on the first option of sorted(LANGUAGES.values()).                *)
(***************************************************************************)
InitApp2State ==
    [is_translating |-> FALSE,
     status |-> "Ready to translate",
     translated_text |-> Empty,
     conversation_history |-> <<>>,
     from_lang_select |-> english,
     to_lang_select |-> english]

NoFrame2 == [spoken_text |-> Empty, translated_text |-> Empty]

Init ==
    /\ app_state = InitAppState
    /\ session_state = InitSessionState
    /\ pc = "idle"
    /\ frame = NoFrame
    /\ now = 0
    /\ raised = "none"
    /\ app2_state = InitApp2State
    /\ pc2 = "idle"
    /\ frame2 = NoFrame2

(***************************************************************************)
(* app.py: helpers.                                                        *)
(***************************************************************************)
update_status(as, status, status_class) ==
    [as EXCEPT !.status = status, !.status_class = status_class]

\* A reply of translator.translate(): the translated text, or an exception.
Translated(text) == [ok |-> TRUE, text |-> text]

TranslateError == [ok |-> FALSE, text |-> Empty]

\* variant: the result is returned without being counted
translate_text_uncounted(as, text, reply) ==
    IF strip(text) = Empty
    THEN [state |-> as, result |-> Empty]
    ELSE IF reply.ok
         THEN [state |-> as, result |-> <<reply.text>>]
         ELSE [state |-> update_status(as, "Translation failed: error", "status-error"),
               result |-> Empty]

\* variant: the counter is incremented before the gateway is called
translate_text_counts_attempts(as, text, reply) ==
    IF strip(text) = Empty
    THEN [state |-> as, result |-> Empty]
    ELSE IF reply.ok
         THEN [state |-> [as EXCEPT !.total_translations = @ + 1],
               result |-> <<reply.text>>]
         ELSE [state |-> update_status([as EXCEPT !.total_translations = @ + 1],
                                       "Translation failed: error", "status-error"),
               result |-> Empty]

\* translate_text(): the state it leaves and what it returns (Empty for None,
\* <<text>> for a result whose .text is text)
translate_text(as, text, reply) ==
    IF strip(text) = Empty
    THEN [state |-> as, result |-> Empty]
    ELSE IF reply.ok
         THEN [state |-> [as EXCEPT !.total_translations = @ + 1],
               result |-> <<reply.text>>]
         ELSE [state |-> update_status(as, "Translation failed: error", "status-error"),
               result |-> Empty]

\* lines 210-215 and 265-270
result_dict(original, translated, from_lang, to_lang) ==
    [original |-> original,
     translation |-> translated,
     from_lang |-> get_language_name(from_lang),
     to_lang |-> get_language_name(to_lang)]

\* lines 218-226
speech_history_entry(timestamp, original, translated, from_lang, to_lang) ==
    [timestamp |-> timestamp,
     original |-> original,
     translation |-> translated,
     from_lang |-> from_lang,
     to_lang |-> to_lang,
     from_lang_name |-> get_language_name(from_lang),
     to_lang_name |-> get_language_name(to_lang)]

\* lines 273-282
text_history_entry(timestamp, original, translated, from_lang, to_lang) ==
    [timestamp |-> timestamp,
     original |-> original,
     translation |-> translated,
     from_lang |-> from_lang,
     to_lang |-> to_lang,
     from_lang_name |-> get_language_name(from_lang),
     to_lang_name |-> get_language_name(to_lang),
     input_type |-> "text"]

\* variant: history[:max_history], which keeps the oldest entries
limit_history_keeps_oldest(history, max_history) ==
    IF Len(history) > max_history
    THEN SubSeq(history, 1, max_history)
    ELSE history

\* history[-max_history:] when the history is longer than max_history
limit_history(history, max_history) ==
    IF Len(history) > max_history
    THEN IF max_history = 0 THEN history
         ELSE SubSeq(history, Len(history) - max_history + 1, Len(history))
    ELSE history

\* variant: a result that is shown is kept until it is dismissed
record_translation_keeps_result(as, result, entry) ==
    [as EXCEPT !.translated_text = IF @ = Empty THEN <<result>> ELSE @,
               !.conversation_history =
                   limit_history(Append(@, entry), as.settings.max_history)]

\* variant: history.insert(0, entry), the newest entry first
record_translation_prepends(as, result, entry) ==
    [as EXCEPT !.translated_text = <<result>>,
               !.conversation_history =
                   limit_history(<<entry>> \o @, as.settings.max_history)]

\* variant: the counter is kept equal to the length of the limited history
record_translation_counts_history(as, result, entry) ==
    [as EXCEPT !.translated_text = <<result>>,
               !.conversation_history =
                   limit_history(Append(@, entry), as.settings.max_history),
               !.total_translations =
                   Len(limit_history(Append(as.conversation_history, entry),
                                     as.settings.max_history))]

\* lines 210-232 and 265-288: record the result, append the entry, limit the history
record_translation(as, result, entry) ==
    [as EXCEPT !.translated_text = <<result>>,
               !.conversation_history =
                   limit_history(Append(@, entry), as.settings.max_history)]

(***************************************************************************)
(* app.py: the end of a script run.                                        *)
(*                                                                         *)
(* A keyed widget returns the value Streamlit keeps for it.  When the      *)
(* value= (or index=) argument differs from the kept value, Streamlit      *)
(* either keeps the widget (it is found by its key) or builds it anew with *)
(* the argument as its value (it is found by its arguments), depending on  *)
(* the release; both are outcomes.  A value the browser has just sent is   *)
(* returned as it is.                                                      *)
(***************************************************************************)
keyed_widget(kept, value, fresh) ==
    IF fresh THEN {kept} ELSE {kept, value}

\* lines 609-652: the four settings widgets, each written back into settings
settings_tab(as, ss, fresh) ==
    { [app_state |->
           [as EXCEPT !.settings =
               [max_history |-> mh,
                speech_timeout |-> st,
                theme |-> lower(th),
                show_stats |-> sh]],
       session_state |->
           [ss EXCEPT !.max_history_setting = mh,
                      !.speech_timeout_setting = st,
                      !.theme_setting = th,
                      !.show_stats_setting = sh]] :
        mh \in keyed_widget(ss.max_history_setting, as.settings.max_history,
                            "max_history_setting" \in fresh),
        st \in keyed_widget(ss.speech_timeout_setting, as.settings.speech_timeout,
                            "speech_timeout_setting" \in fresh),
        th \in keyed_widget(ss.theme_setting,
                            ThemeOptions[IF as.settings.theme = theme_light THEN 1 ELSE 2],
                            "theme_setting" \in fresh),
        sh \in keyed_widget(ss.show_stats_setting, as.settings.show_stats,
                            "show_stats_setting" \in fresh) }

\* The script runs to its last line: the settings tab is rendered on the way.
Finish(as, ss, fresh) ==
    /\ \E r \in settings_tab(as, ss, fresh) :
           /\ app_state' = r.app_state
           /\ session_state' = r.session_state
    /\ pc' = "idle"
    /\ frame' = NoFrame
    /\ raised' = "none"

\* An uncaught exception ends the run where it is raised: the widgets below it
\* are not rendered, and Streamlit may drop the value of the unkeyed search box.
Abort(as, exception) ==
    /\ app_state' = as
    /\ \E term \in {session_state.search_term, Empty} :
           session_state' = [session_state EXCEPT !.search_term = term]
    /\ pc' = "idle"
    /\ frame' = NoFrame
    /\ raised' = exception

Idle == pc = "idle"

\* what the last run rendered: everything, or the page down to the raising line
RenderedAll == raised = "none"

\* lines 495, 521
SaveRendered ==
    /\ raised \in {"none", "IndexError"}
    /\ app_state.translated_text # Empty

\* lines 495, 525
NewRendered ==
    /\ raised = "none"
    /\ app_state.translated_text # Empty

(***************************************************************************)
(* app.py: sidebar.                                                        *)
(***************************************************************************)
SelectFromLanguage(name) ==
    /\ Idle
    /\ name # session_state.from_lang_select
    /\ Finish(app_state, [session_state EXCEPT !.from_lang_select = name], {})
    /\ UNCHANGED <<now, app2_vars>>

SelectToLanguage(name) ==
    /\ Idle
    /\ name # session_state.to_lang_select
    /\ Finish(app_state, [session_state EXCEPT !.to_lang_select = name], {})
    /\ UNCHANGED <<now, app2_vars>>

(***************************************************************************)
(* app.py: translate_speech(), lines 153-241, started at lines 460-462.    *)
(***************************************************************************)
\* the except Exception / finally of lines 237-241, then the rest of the script
SpeechException(as) ==
    Finish([update_status(as, "Error: exception", "status-error")
               EXCEPT !.is_translating = FALSE],
           session_state, {})

\* a return from inside the try: the finally, then the rest of the script
SpeechReturn(as) ==
    Finish([as EXCEPT !.is_translating = FALSE], session_state, {})

StartListening ==
    /\ Idle
    /\ app_state' = update_status([app_state EXCEPT !.is_translating = TRUE],
                                  "Preparing to listen...", "status-processing")
    /\ pc' = "preparing"
    /\ UNCHANGED <<session_state, frame, now, raised, app2_vars>>

\* lines 163-168: open the microphone, adjust for ambient noise
OpenMicrophone(ok) ==
    /\ pc = "preparing"
    /\ IF ok
       THEN /\ app_state' = update_status(app_state, "Listening...", "status-listening")
            /\ pc' = "listening"
            /\ UNCHANGED <<session_state, frame, raised>>
       ELSE SpeechException(app_state)
    /\ UNCHANGED <<now, app2_vars>>

\* lines 171-178: recognizer.listen(), which raises on timeout
Listen(ok) ==
    /\ pc = "listening"
    /\ IF ok
       THEN /\ app_state' = update_status(app_state, "Processing speech...",
                                          "status-processing")
            /\ pc' = "recognizing"
            /\ UNCHANGED <<session_state, frame, raised>>
       ELSE SpeechException(app_state)
    /\ UNCHANGED <<now, app2_vars>>

\* lines 181-197
RecognizeUnknownValue ==
    /\ pc = "recognizing"
    /\ SpeechReturn(update_status(app_state, "Could not understand audio",
                                  "status-error"))
    /\ UNCHANGED <<now, app2_vars>>

RecognizeRequestError ==
    /\ pc = "recognizing"
    /\ SpeechReturn(update_status(app_state, "Speech recognition service unavailable",
                                  "status-error"))
    /\ UNCHANGED <<now, app2_vars>>

RecognizeException ==
    /\ pc = "recognizing"
    /\ SpeechException(app_state)
    /\ UNCHANGED <<now, app2_vars>>

Recognize(spoken_text) ==
    /\ pc = "recognizing"
    /\ app_state' = update_status(app_state, "Translating...", "status-processing")
    /\ frame' = [spoken_text |-> spoken_text, timestamp |-> now]
    /\ pc' = "translating"
    /\ UNCHANGED <<session_state, now, raised, app2_vars>>

\* lines 199-235
TranslateSpeech(reply, max_translations) ==
    /\ pc = "translating"
    /\ reply.ok => app_state.total_translations < max_translations
    /\ LET t == translate_text(app_state, frame.spoken_text, reply)
       IN  IF t.result # Empty
           THEN SpeechReturn(update_status(
                    record_translation(
                        t.state,
                        result_dict(frame.spoken_text, t.result[1],
                                    current_from_lang, current_to_lang),
                        speech_history_entry(frame.timestamp, frame.spoken_text,
                                             t.result[1],
                                             current_from_lang, current_to_lang)),
                    "Translation complete", "status-ready"))
           ELSE SpeechReturn(t.state)
    /\ UNCHANGED <<now, app2_vars>>

\* variant: the button also dismisses the result
StopListeningDismissesResult ==
    /\ Idle
    /\ Finish(update_status([app_state EXCEPT !.is_translating = FALSE,
                                              !.translated_text = Empty],
                            "Stopped", "status-ready"),
              session_state, {})
    /\ UNCHANGED <<now, app2_vars>>

\* lines 470-472
StopListening ==
    /\ Idle
    /\ Finish(update_status([app_state EXCEPT !.is_translating = FALSE],
                            "Stopped", "status-ready"),
              session_state, {})
    /\ UNCHANGED <<now, app2_vars>>

(***************************************************************************)
(* app.py: text input, lines 478-491 and text_input_translation().         *)
(***************************************************************************)
EditText(text) ==
    /\ Idle
    /\ text # session_state.text_input
    /\ Finish(app_state, [session_state EXCEPT !.text_input = text], {})
    /\ UNCHANGED <<now, app2_vars>>

\* Line 291 assigns st.session_state.text_input after the text area with that
\* key was created in this run (line 478): Streamlit raises
\* StreamlitAPIException there, so line 294 is not reached.
text_input_translation(as, input_text, from_lang, to_lang, timestamp, reply) ==
    IF input_text = Empty
    THEN [state |-> as, exception |-> "none"]
    ELSE LET t == translate_text(update_status(as, "Translating...", "status-processing"),
                                 input_text, reply)
         IN  IF t.result # Empty
             THEN [state |-> record_translation(
                                 t.state,
                                 result_dict(input_text, t.result[1], from_lang, to_lang),
                                 text_history_entry(timestamp, input_text, t.result[1],
                                                    from_lang, to_lang)),
                   exception |-> "StreamlitAPIException"]
             ELSE [state |-> t.state, exception |-> "none"]

TranslateText(reply, max_translations) ==
    /\ Idle
    /\ (reply.ok /\ strip(session_state.text_input) # Empty)
           => app_state.total_translations < max_translations
    /\ LET r == text_input_translation(app_state, session_state.text_input,
                                       current_from_lang, current_to_lang, now, reply)
       IN  IF r.exception = "none"
           THEN Finish(r.state, session_state, {})
           ELSE Abort(r.state, r.exception)
    /\ UNCHANGED <<now, app2_vars>>

(***************************************************************************)
(* app.py: the result panel, lines 495-527.                                *)
(***************************************************************************)
\* save_to_favorites(): history[-1] of an empty history raises IndexError
save_to_favorites(as) ==
    IF as.translated_text # Empty
    THEN IF as.conversation_history = <<>>
         THEN [state |-> as, exception |-> "IndexError"]
         ELSE [state |-> [as EXCEPT !.favorites =
                             Append(@, as.conversation_history[Len(as.conversation_history)])],
               exception |-> "none"]
    ELSE [state |-> as, exception |-> "none"]

SaveToFavorites ==
    /\ Idle
    /\ SaveRendered
    /\ Len(app_state.favorites) < MaxFavorites
    /\ LET r == save_to_favorites(app_state)
       IN  IF r.exception = "none"
           THEN Finish(r.state, session_state, {})
           ELSE Abort(r.state, r.exception)
    /\ UNCHANGED <<now, app2_vars>>

\* variant: the status is left as the last translation set it
NewTranslationKeepsStatus ==
    /\ Idle
    /\ NewRendered
    /\ Finish([app_state EXCEPT !.translated_text = Empty], session_state, {})
    /\ UNCHANGED <<now, app2_vars>>

\* lines 525-527
NewTranslation ==
    /\ Idle
    /\ NewRendered
    /\ Finish(update_status([app_state EXCEPT !.translated_text = Empty],
                            "Ready to translate", "status-ready"),
              session_state, {})
    /\ UNCHANGED <<now, app2_vars>>

(***************************************************************************)
(* app.py: the history tab, lines 532-600.                                 *)
(***************************************************************************)
\* variant: the favorites are emptied together with the history
ClearHistoryAndFavorites ==
    /\ Idle
    /\ RenderedAll
    /\ Finish([app_state EXCEPT !.conversation_history = <<>>,
                                !.favorites = <<>>],
              session_state, {})
    /\ UNCHANGED <<now, app2_vars>>

\* variant: the result panel is emptied together with the history
ClearHistoryAndResult ==
    /\ Idle
    /\ RenderedAll
    /\ Finish([app_state EXCEPT !.conversation_history = <<>>,
                                !.translated_text = Empty],
              session_state, {})
    /\ UNCHANGED <<now, app2_vars>>

\* lines 539-541
ClearHistory ==
    /\ Idle
    /\ RenderedAll
    /\ Finish([app_state EXCEPT !.conversation_history = <<>>], session_state, {})
    /\ UNCHANGED <<now, app2_vars>>

\* export_history(), lines 146-151.  The CSV is kept as its rows: the header
\* row of column names, then one row of fields per entry.  pandas takes the
\* columns from the keys of the entries in the order they first appear, and
\* writes a missing value as an empty field.
entry_columns ==
    <<"timestamp", "original", "translation", "from_lang", "to_lang",
      "from_lang_name", "to_lang_name">>

csv_columns(history) ==
    IF \E i \in 1..Len(history) : "input_type" \in DOMAIN history[i]
    THEN Append(entry_columns, "input_type")
    ELSE entry_columns

csv_row(entry, columns) ==
    [k \in 1..Len(columns) |->
        IF columns[k] \in DOMAIN entry THEN entry[columns[k]] ELSE Empty]

\* variant: to_csv(index=False, header=False)
export_history_without_header(history) ==
    IF history # <<>>
    THEN [i \in 1..Len(history) |-> csv_row(history[i], csv_columns(history))]
    ELSE Empty

\* Empty stands for None
export_history(history) ==
    IF history # <<>>
    THEN <<csv_columns(history)>> \o
         [i \in 1..Len(history) |-> csv_row(history[i], csv_columns(history))]
    ELSE Empty

\* lines 543-550: the download button, rendered while the history is not empty
ExportHistory ==
    /\ Idle
    /\ RenderedAll
    /\ app_state.conversation_history # <<>>
    /\ export_history(app_state.conversation_history) # Empty
    /\ Finish(app_state, session_state, {})
    /\ UNCHANGED <<now, app2_vars>>

\* variant: the search term is not lower-cased
filtered_history_case_sensitive(history, search_term) ==
    IF search_term # Empty
    THEN LET Keep(entry) ==
                 \/ Contains(lower(entry.original), search_term)
                 \/ Contains(lower(entry.translation), search_term)
         IN  SelectSeq(history, Keep)
    ELSE history

\* lines 572-577
filtered_history(history, search_term) ==
    IF search_term # Empty
    THEN LET Keep(entry) ==
                 \/ Contains(lower(entry.original), lower(search_term))
                 \/ Contains(lower(entry.translation), lower(search_term))
         IN  SelectSeq(history, Keep)
    ELSE history

reversed(s) == [i \in 1..Len(s) |-> s[Len(s) + 1 - i]]

SearchHistory(term) ==
    /\ Idle
    /\ RenderedAll
    /\ term # session_state.search_term
    /\ Finish(app_state, [session_state EXCEPT !.search_term = term], {})
    /\ UNCHANGED <<now, app2_vars>>

\* variant: the entry is appended without looking for it in the favorites
add_to_favorites_always(as, entry) ==
    [as EXCEPT !.favorites = Append(@, entry)]

\* lines 592-595: the button fav_i of the i-th entry shown (i from 0)
add_to_favorites(as, entry) ==
    IF \E k \in 1..Len(as.favorites) : as.favorites[k] = entry
    THEN as
    ELSE [as EXCEPT !.favorites = Append(@, entry)]

AddToFavorites(i) ==
    /\ Idle
    /\ RenderedAll
    /\ LET shown == reversed(filtered_history(app_state.conversation_history,
                                              session_state.search_term))
       IN  /\ i + 1 \in 1..Len(shown)
           /\ Len(add_to_favorites(app_state, shown[i + 1]).favorites) <= MaxFavorites
           /\ Finish(add_to_favorites(app_state, shown[i + 1]), session_state, {})
    /\ UNCHANGED <<now, app2_vars>>

(***************************************************************************)
(* app.py: display_stats(), lines 296-353, called at the end of the        *)
(* history tab when settings.show_stats is set.                            *)
(***************************************************************************)
NoLanguage == <<"N", "o", "n", "e">>

\* lines 321-324: the dict langs, as its items in insertion order
RECURSIVE count_languages(_)
count_languages(history) ==
    IF history = <<>>
    THEN <<>>
    ELSE LET langs == count_languages(SubSeq(history, 1, Len(history) - 1))
             target == history[Len(history)].to_lang_name
         IN  IF \E k \in 1..Len(langs) : langs[k].language = target
             THEN [k \in 1..Len(langs) |->
                      IF langs[k].language = target
                      THEN [langs[k] EXCEPT !.count = @ + 1]
                      ELSE langs[k]]
             ELSE Append(langs, [language |-> target, count |-> 1])

\* variant: a later key with the same count replaces the earlier one
max_key_last(langs) ==
    LET best[k \in 1..Len(langs)] ==
            IF k = 1 THEN 1
            ELSE IF langs[k].count >= langs[best[k - 1]].count THEN k ELSE best[k - 1]
    IN  langs[best[Len(langs)]].language

\* line 325: max(langs, key=langs.get) keeps the first key of the greatest count
max_key(langs) ==
    LET best[k \in 1..Len(langs)] ==
            IF k = 1 THEN 1
            ELSE IF langs[k].count > langs[best[k - 1]].count THEN k ELSE best[k - 1]
    IN  langs[best[Len(langs)]].language

\* lines 320-328
most_used_language(history) ==
    IF history # <<>> THEN max_key(count_languages(history)) ELSE NoLanguage

\* whether the run shows the statistics
StatsShown ==
    /\ RenderedAll
    /\ app_state.settings.show_stats

(***************************************************************************)
(* app.py: the settings tab, lines 604-663.                                *)
(***************************************************************************)
\* variant: a number input without min_value and max_value
ChangeMaxHistoryUnchecked(value) ==
    /\ Idle
    /\ RenderedAll
    /\ value # session_state.max_history_setting
    /\ Finish(app_state, [session_state EXCEPT !.max_history_setting = value],
              {"max_history_setting"})
    /\ UNCHANGED <<now, app2_vars>>

\* lines 611-620: the number input takes no value outside min_value..max_value
ChangeMaxHistory(value) ==
    /\ Idle
    /\ RenderedAll
    /\ value \in MinMaxHistory..MaxMaxHistory
    /\ value # session_state.max_history_setting
    /\ Finish(app_state, [session_state EXCEPT !.max_history_setting = value],
              {"max_history_setting"})
    /\ UNCHANGED <<now, app2_vars>>

ChangeSpeechTimeout(value) ==
    /\ Idle
    /\ RenderedAll
    /\ value \in MinSpeechTimeout..MaxSpeechTimeout
    /\ value # session_state.speech_timeout_setting
    /\ Finish(app_state, [session_state EXCEPT !.speech_timeout_setting = value],
              {"speech_timeout_setting"})
    /\ UNCHANGED <<now, app2_vars>>

ChangeTheme(option) ==
    /\ Idle
    /\ RenderedAll
    /\ option \in {ThemeOptions[k] : k \in 1..Len(ThemeOptions)}
    /\ option # session_state.theme_setting
    /\ Finish(app_state, [session_state EXCEPT !.theme_setting = option],
              {"theme_setting"})
    /\ UNCHANGED <<now, app2_vars>>

ChangeShowStats ==
    /\ Idle
    /\ RenderedAll
    /\ Finish(app_state,
              [session_state EXCEPT !.show_stats_setting = ~session_state.show_stats_setting],
              {"show_stats_setting"})
    /\ UNCHANGED <<now, app2_vars>>

\* variant: the button replaces the whole of app_state by its initial value
ResetEverything ==
    /\ Idle
    /\ RenderedAll
    /\ \E r \in settings_tab(app_state, session_state, {}) :
           Finish(InitAppState, r.session_state, {})
    /\ UNCHANGED <<now, app2_vars>>

\* lines 655-663: the widgets of this run are written back first, the button
\* restores the defaults, st.experimental_rerun() runs the script again
ResetSettings ==
    /\ Idle
    /\ RenderedAll
    /\ \E r \in settings_tab(app_state, session_state, {}) :
           Finish([r.app_state EXCEPT !.settings = DefaultSettings], r.session_state, {})
    /\ UNCHANGED <<now, app2_vars>>


\* a second passes
Tick ==
    /\ now < MaxClock
    /\ now' = now + 1
    /\ UNCHANGED <<app_vars, app2_vars>>

(***************************************************************************)
(* app.py: the specifications.  Each lets the user work a part of the page *)
(* and draws the inputs of a run from small sets.                          *)
(***************************************************************************)
SpeechFailure ==
    \/ OpenMicrophone(FALSE)
    \/ Listen(FALSE)
    \/ RecognizeUnknownValue
    \/ RecognizeRequestError
    \/ RecognizeException

\* Spec: the translator tab and the history tab, with one language pair
TypedTexts == {Empty, <<" ">>, <<"a">>}

SpokenTexts == {<<" ">>, <<"b">>}

Translations == {<<"B">>}

SearchTerms == {Empty, <<"b">>}

MaxHistoryValues == {MinMaxHistory, DefaultMaxHistory}

Next ==
    \/ StartListening
    \/ OpenMicrophone(TRUE)
    \/ Listen(TRUE)
    \/ SpeechFailure
    \/ \E text \in SpokenTexts : Recognize(text)
    \/ \E text \in Translations : TranslateSpeech(Translated(text), MaxTranslations)
    \/ TranslateSpeech(TranslateError, MaxTranslations)
    \/ StopListening
    \/ \E text \in TypedTexts : EditText(text)
    \/ \E text \in Translations : TranslateText(Translated(text), MaxTranslations)
    \/ TranslateText(TranslateError, MaxTranslations)
    \/ SaveToFavorites
    \/ NewTranslation
    \/ ClearHistory
    \/ ExportHistory
    \/ \E term \in SearchTerms : SearchHistory(term)
    \/ \E i \in 0..(MaxMaxHistory - 1) : AddToFavorites(i)
    \/ \E value \in MaxHistoryValues : ChangeMaxHistory(value)
    \/ ResetSettings

Spec == Init /\ [][Next]_vars

\* SpecSpeech: the user picks languages, speaks, and works the result panel and
\* the history, while time passes
SelectableNames == {english, hebrew}

NextSpeech ==
    \/ \E name \in SelectableNames : SelectToLanguage(name)
    \/ StartListening
    \/ OpenMicrophone(TRUE)
    \/ Listen(TRUE)
    \/ SpeechFailure
    \/ \E text \in SpokenTexts : Recognize(text)
    \/ \E text \in Translations : TranslateSpeech(Translated(text), MaxTranslations)
    \/ TranslateSpeech(TranslateError, MaxTranslations)
    \/ StopListening
    \/ SaveToFavorites
    \/ NewTranslation
    \/ ClearHistory
    \/ \E i \in 0..(MaxMaxHistory - 1) : AddToFavorites(i)
    \/ Tick

SpecSpeech == Init /\ [][NextSpeech]_vars

\* SpecHistory: enough successful translations to fill the history, while the
\* user moves max_history; the history is never cleared
HistoryTexts == {<<"a">>, <<"c">>}

NextHistory ==
    \/ \E text \in HistoryTexts : EditText(text)
    \/ \E text \in Translations : TranslateText(Translated(text), MaxTranslationsHistory)
    \/ StartListening
    \/ OpenMicrophone(TRUE)
    \/ Listen(TRUE)
    \/ Recognize(<<"b">>)
    \/ \E text \in Translations : TranslateSpeech(Translated(text), MaxTranslationsHistory)
    \/ \E value \in MaxHistoryValues : ChangeMaxHistory(value)

SpecHistory == Init /\ [][NextHistory]_vars

\* SpecCounter: as SpecHistory, with failing translations and with the history
\* cleared
NextCounter ==
    \/ NextHistory
    \/ ClearHistory
    \/ RecognizeUnknownValue
    \/ TranslateSpeech(TranslateError, MaxTranslationsHistory)
    \/ TranslateText(TranslateError, MaxTranslationsHistory)

SpecCounter == Init /\ [][NextCounter]_vars

\* SpecFavorites: typed translations that fill the history, which is limited
\* and cleared, while entries are saved to the favorites
NextFavorites ==
    \/ \E text \in HistoryTexts : EditText(text)
    \/ \E text \in Translations : TranslateText(Translated(text), MaxTranslationsHistory)
    \/ ChangeMaxHistory(MinMaxHistory)
    \/ ClearHistory
    \/ SaveToFavorites
    \/ \E i \in 0..(MaxTranslationsHistory - 1) : AddToFavorites(i)

SpecFavorites == Init /\ [][NextFavorites]_vars

\* SpecSearch: typed translations in both letter cases, and the search box
SearchTexts == {<<"a">>, <<"A", "b">>}

SearchTranslations == {<<"B">>, <<"a", "b">>}

SearchBoxTerms == {Empty, <<"a">>, <<"a", "B">>, <<" ">>}

NextSearch ==
    \/ \E text \in SearchTexts : EditText(text)
    \/ \E text \in SearchTranslations :
           TranslateText(Translated(text), MaxTranslationsSearch)
    \/ \E term \in SearchBoxTerms : SearchHistory(term)
    \/ ClearHistory
    \/ \E i \in 0..(MaxTranslationsSearch - 1) : AddToFavorites(i)

SpecSearch == Init /\ [][NextSearch]_vars

\* SpecSettings: the settings tab, with one text to translate
SpeechTimeoutValues == {MinSpeechTimeout, DefaultSpeechTimeout}

\* what the user tries to enter: the ends of the ranges and the numbers
\* next to them
MaxHistoryInputs ==
    MaxHistoryValues \cup {MinMaxHistory - 1, MaxMaxHistory, MaxMaxHistory + 1}

SpeechTimeoutInputs ==
    SpeechTimeoutValues \cup {MinSpeechTimeout - 1, MaxSpeechTimeout, MaxSpeechTimeout + 1}

NextSettings ==
    \/ \E name \in SelectableNames : SelectFromLanguage(name)
    \/ EditText(<<"a">>)
    \/ \E text \in Translations :
           TranslateText(Translated(text), MaxTranslationsSettings)
    \/ StopListening
    \/ SaveToFavorites
    \/ ClearHistory
    \/ \E value \in MaxHistoryInputs : ChangeMaxHistory(value)
    \/ \E value \in SpeechTimeoutInputs : ChangeSpeechTimeout(value)
    \/ \E k \in 1..Len(ThemeOptions) : ChangeTheme(ThemeOptions[k])
    \/ ChangeShowStats
    \/ ResetSettings

SpecSettings == Init /\ [][NextSettings]_vars

(***************************************************************************)
(* app2.py: the speak-aloud variant.                                       *)
(***************************************************************************)
\* app2.py's get_language_code(): no lower-casing
get_language_code2(language_name) ==
    IF language_name \in DOMAIN language_mapping
    THEN language_mapping[language_name]
    ELSE language_name

current_from_lang2 == get_language_code2(app2_state.from_lang_select)

current_to_lang2 == get_language_code2(app2_state.to_lang_select)

Idle2 == pc2 = "idle"

\* lines 108-111: the two lines of the result text
result_text2(spoken_text, translated_text, from_lang, to_lang) ==
    <<from_lang, spoken_text, to_lang, translated_text>>

\* lines 114-119
history_entry2(spoken_text, translated_text, from_lang, to_lang) ==
    [original |-> spoken_text,
     translation |-> translated_text,
     from_lang |-> from_lang,
     to_lang |-> to_lang]

\* the except Exception / finally of lines 127-131
SpeechException2 ==
    /\ app2_state' = [app2_state EXCEPT !.status = "Error: exception",
                                        !.is_translating = FALSE]
    /\ pc2' = "idle"
    /\ frame2' = NoFrame2

\* a return from inside the try, or its end: the finally of lines 129-131
SpeechReturn2(as) ==
    /\ app2_state' = [as EXCEPT !.is_translating = FALSE]
    /\ pc2' = "idle"
    /\ frame2' = NoFrame2

SelectFromLanguage2(name) ==
    /\ Idle2
    /\ name # app2_state.from_lang_select
    /\ app2_state' = [app2_state EXCEPT !.from_lang_select = name]
    /\ UNCHANGED <<pc2, frame2, now, app_vars>>

SelectToLanguage2(name) ==
    /\ Idle2
    /\ name # app2_state.to_lang_select
    /\ app2_state' = [app2_state EXCEPT !.to_lang_select = name]
    /\ UNCHANGED <<pc2, frame2, now, app_vars>>

\* lines 170-172, 62
StartListening2 ==
    /\ Idle2
    /\ app2_state' = [app2_state EXCEPT !.is_translating = TRUE,
                                        !.status = "Preparing to listen..."]
    /\ pc2' = "preparing"
    /\ UNCHANGED <<frame2, now, app_vars>>

\* lines 69-74
OpenMicrophone2(ok) ==
    /\ pc2 = "preparing"
    /\ IF ok
       THEN /\ app2_state' = [app2_state EXCEPT !.status = "Listening..."]
            /\ pc2' = "listening"
            /\ UNCHANGED frame2
       ELSE SpeechException2
    /\ UNCHANGED <<now, app_vars>>

\* lines 77-80
Listen2(ok) ==
    /\ pc2 = "listening"
    /\ IF ok
       THEN /\ app2_state' = [app2_state EXCEPT !.status = "Processing speech..."]
            /\ pc2' = "recognizing"
            /\ UNCHANGED frame2
       ELSE SpeechException2
    /\ UNCHANGED <<now, app_vars>>

\* lines 83-96
RecognizeUnknownValue2 ==
    /\ pc2 = "recognizing"
    /\ SpeechReturn2([app2_state EXCEPT !.status = "Could not understand audio"])
    /\ UNCHANGED <<now, app_vars>>

RecognizeRequestError2 ==
    /\ pc2 = "recognizing"
    /\ SpeechReturn2([app2_state EXCEPT !.status = "Speech recognition error"])
    /\ UNCHANGED <<now, app_vars>>

RecognizeException2 ==
    /\ pc2 = "recognizing"
    /\ SpeechException2
    /\ UNCHANGED <<now, app_vars>>

Recognize2(spoken_text) ==
    /\ pc2 = "recognizing"
    /\ app2_state' = [app2_state EXCEPT !.status = "Translating..."]
    /\ frame2' = [frame2 EXCEPT !.spoken_text = spoken_text]
    /\ pc2' = "translating"
    /\ UNCHANGED <<now, app_vars>>

\* lines 38-44: the translated text as <<text>>, or Empty for None after st.error
translate_text2(reply) ==
    IF reply.ok THEN <<reply.text>> ELSE Empty

\* variant: playback in the background, the status set before it is started
TranslateSpeech2ThenPlay(reply) ==
    /\ pc2 = "translating"
    /\ reply.ok => Len(app2_state.conversation_history) < MaxTranslations2
    /\ LET translation == IF reply.ok THEN <<reply.text>> ELSE Empty
       IN  IF translation # Empty
           THEN /\ app2_state' =
                     [app2_state EXCEPT
                         !.translated_text =
                             result_text2(frame2.spoken_text, translation[1],
                                          current_from_lang2, current_to_lang2),
                         !.conversation_history =
                             Append(@, history_entry2(frame2.spoken_text, translation[1],
                                                      current_from_lang2,
                                                      current_to_lang2)),
                         !.status = "Translation complete"]
                /\ frame2' = [frame2 EXCEPT !.translated_text = translation[1]]
                /\ pc2' = "speaking"
           ELSE SpeechReturn2(app2_state)
    /\ UNCHANGED <<now, app_vars>>

\* lines 97-119
TranslateSpeech2(reply) ==
    /\ pc2 = "translating"
    /\ reply.ok => Len(app2_state.conversation_history) < MaxTranslations2
    /\ LET translation == translate_text2(reply)
       IN  IF translation # Empty
           THEN /\ app2_state' =
                     [app2_state EXCEPT
                         !.translated_text =
                             result_text2(frame2.spoken_text, translation[1],
                                          current_from_lang2, current_to_lang2),
                         !.conversation_history =
                             Append(@, history_entry2(frame2.spoken_text, translation[1],
                                                      current_from_lang2,
                                                      current_to_lang2))]
                /\ frame2' = [frame2 EXCEPT !.translated_text = translation[1]]
                /\ pc2' = "speaking"
           ELSE SpeechReturn2(app2_state)
    /\ UNCHANGED <<now, app_vars>>

\* text_to_speech(), lines 46-57: whether an exception leaves it.  It returns
\* when the playback has ended (ok) or when it has caught its own exception.
text_to_speech_raises(ok) == FALSE

\* lines 121-125
Speak2(ok) ==
    /\ pc2 = "speaking"
    /\ IF text_to_speech_raises(ok)
       THEN SpeechException2
       ELSE SpeechReturn2([app2_state EXCEPT !.status = "Translation complete"])
    /\ UNCHANGED <<now, app_vars>>

\* lines 180-182
StopListening2 ==
    /\ Idle2
    /\ app2_state' = [app2_state EXCEPT !.is_translating = FALSE,
                                        !.status = "Stopped"]
    /\ UNCHANGED <<pc2, frame2, now, app_vars>>

SpeechFailure2 ==
    \/ OpenMicrophone2(FALSE)
    \/ Listen2(FALSE)
    \/ RecognizeUnknownValue2
    \/ RecognizeRequestError2
    \/ RecognizeException2

Names2 == {english, spanish}

Next2 ==
    \/ \E name \in Names2 : SelectFromLanguage2(name)
    \/ \E name \in Names2 : SelectToLanguage2(name)
    \/ StartListening2
    \/ OpenMicrophone2(TRUE)
    \/ Listen2(TRUE)
    \/ SpeechFailure2
    \/ \E text \in SpokenTexts : Recognize2(text)
    \/ \E text \in Translations : TranslateSpeech2(Translated(text))
    \/ TranslateSpeech2(TranslateError)
    \/ Speak2(TRUE)
    \/ Speak2(FALSE)
    \/ StopListening2

Spec2 == Init /\ [][Next2]_vars

(***************************************************************************)
(* SpecStop: the speech buttons of both programs, each in its own session. *)
(***************************************************************************)
NextStop ==
    \/ StartListening
    \/ OpenMicrophone(TRUE)
    \/ Listen(TRUE)
    \/ SpeechFailure
    \/ Recognize(<<"b">>)
    \/ \E text \in Translations : TranslateSpeech(Translated(text), MaxTranslations)
    \/ TranslateSpeech(TranslateError, MaxTranslations)
    \/ StopListening
    \/ SaveToFavorites
    \/ StartListening2
    \/ OpenMicrophone2(TRUE)
    \/ Listen2(TRUE)
    \/ SpeechFailure2
    \/ Recognize2(<<"b">>)
    \/ \E text \in Translations : TranslateSpeech2(Translated(text))
    \/ TranslateSpeech2(TranslateError)
    \/ Speak2(TRUE)
    \/ Speak2(FALSE)
    \/ StopListening2

SpecStop == Init /\ [][NextStop]_vars

(***************************************************************************)
(* Properties.                                                             *)
(***************************************************************************)
History == app_state.conversation_history

\* C1: the history never holds more than settings.max_history entries.
HistoryWithinMaxHistory ==
    Len(History) <= app_state.settings.max_history

\* the three text translations T1, T2, T3 of the scenario, with max_history = 2
ScenarioState(n) ==
    LET T(k) == <<"a", (<<"x", "y", "z">>)[k]>>
        step(as, k) ==
            text_input_translation(as, T(k), <<"e","n">>, <<"e","s">>, k,
                                   Translated(<<"B">>)).state
        s0 == [InitAppState EXCEPT !.settings.max_history = 2]
        s1 == step(s0, 1)
        s2 == step(s1, 2)
        s3 == step(s2, 3)
    IN  (<<s1, s2, s3>>)[n]

ScenarioHolds ==
    LET h == ScenarioState(3).conversation_history
    IN  /\ ScenarioState(3).total_translations = 3
        /\ Len(h) = 2
        /\ h[1] = ScenarioState(2).conversation_history[2]
        /\ h[1].original = <<"a", "y">>
        /\ h[2].original = <<"a", "z">>

\* C2: a successful translation leaves the old history without its oldest
\* entries, followed by the new entry; the new entry is never the one dropped.
FifoEviction ==
    [][app_state'.total_translations = app_state.total_translations + 1 =>
        LET old == History
            new == app_state'.conversation_history
            max == app_state.settings.max_history
            dropped == IF Len(old) + 1 > max THEN Len(old) + 1 - max ELSE 0
            typed == IF pc = "translating" THEN frame.spoken_text
                     ELSE session_state.text_input
        IN  /\ new # <<>>
            /\ new[Len(new)].original = typed
            /\ app_state'.translated_text # Empty
            /\ new[Len(new)].translation = app_state'.translated_text[1].translation
            /\ Len(new) = Len(old) + 1 - dropped
            /\ \A i \in 1..(Len(new) - 1) : new[i] = old[i + dropped]
            /\ ScenarioHolds]_vars

\* C2 witness: six translations into a history of five: the oldest was evicted
EvictionHappened ==
    /\ pc = "idle"
    /\ app_state.settings.max_history = MinMaxHistory
    /\ Len(History) = MinMaxHistory
    /\ app_state.total_translations = MinMaxHistory + 1
    /\ History[1] # History[Len(History)]

\* C3: a text translation of a non-blank text that the gateway answers adds one
\* to the counter, appends the entry, replaces the result and ends Ready.
TextTranslationCompletes ==
    [][\A text \in Translations :
        (/\ TranslateText(Translated(text), MaxTranslations)
         /\ strip(session_state.text_input) # Empty)
        => /\ app_state'.total_translations = app_state.total_translations + 1
           /\ Len(app_state'.conversation_history) = Len(History) + 1
           /\ LET entry == app_state'.conversation_history[Len(History) + 1]
              IN  /\ entry.input_type = "text"
                  /\ entry.original = session_state.text_input
                  /\ entry.translation = text
           /\ app_state'.translated_text # Empty
           /\ app_state'.translated_text[1].original = session_state.text_input
           /\ app_state'.translated_text[1].translation = text
           /\ app_state'.status_class = "status-ready"]_vars

AnyTextTranslation ==
    \/ \E text \in Translations : TranslateText(Translated(text), MaxTranslations)
    \/ TranslateText(TranslateError, MaxTranslations)

\* C4: a text translation of an empty or whitespace-only text changes neither
\* the history, the result, the counter nor the status.
BlankTextIsNoOp ==
    [][(AnyTextTranslation /\ strip(session_state.text_input) = Empty)
        => /\ app_state'.conversation_history = History
           /\ app_state'.translated_text = app_state.translated_text
           /\ app_state'.total_translations = app_state.total_translations
           /\ app_state'.status = app_state.status
           /\ app_state'.status_class = app_state.status_class]_vars

\* the steps of a translation that fails, and the steps before the failure
FailedTranslation ==
    \/ SpeechFailure
    \/ TranslateSpeech(TranslateError, MaxTranslations)
    \/ TranslateText(TranslateError, MaxTranslations)

SpeechInFlight ==
    \/ StartListening
    \/ OpenMicrophone(TRUE)
    \/ Listen(TRUE)
    \/ \E text \in SpokenTexts : Recognize(text)

\* C5: a failed translation changes nothing but the status (and the
\* is_translating flag of the run); unrecognised speech gives an error status
\* with a message.
FailureLeavesResults ==
    [][/\ (FailedTranslation \/ SpeechInFlight)
          => /\ app_state'.translated_text = app_state.translated_text
             /\ app_state'.conversation_history = History
             /\ app_state'.total_translations = app_state.total_translations
             /\ app_state'.favorites = app_state.favorites
             /\ app_state'.settings = app_state.settings
             /\ app_state'.start_time = app_state.start_time
       /\ RecognizeUnknownValue
          => /\ app_state'.status_class = "status-error"
             /\ app_state'.status # ""
             /\ app_state'.status # app_state.status]_vars

\* C5 witness: speech was not understood after an earlier translation, whose
\* result and history entry are still there
FailureAfterSuccess ==
    /\ pc = "idle"
    /\ app_state.status = "Could not understand audio"
    /\ app_state.status_class = "status-error"
    /\ app_state.translated_text # Empty
    /\ History # <<>>
    /\ app_state.total_translations = Len(History)

\* C6: no script run ends with an uncaught exception.
NoActionRaises == raised = "none"

ErrorStatuses2 ==
    {"Could not understand audio", "Speech recognition error", "Error: exception"}

\* C7: every failure inside a translation is turned into an error status with
\* a message, in app.py and in app2.py (speech synthesis included).
FailuresBecomeErrorStatus ==
    [][/\ FailedTranslation
          => /\ app_state'.status_class = "status-error"
             /\ app_state'.status # ""
       /\ (SpeechFailure2 \/ TranslateSpeech2(TranslateError) \/ Speak2(FALSE))
          => app2_state'.status \in ErrorStatuses2]_vars

\* C8: between two actions the status class is ready or error.
StatusSettles ==
    pc = "idle" => app_state.status_class \in {"status-ready", "status-error"}

OccursAt(text, term, k) ==
    /\ k + Len(term) <= Len(text)
    /\ \A j \in 1..Len(term) :
           \/ text[k + j] = term[j]
           \/ Upper(text[k + j]) = term[j]
           \/ text[k + j] = Upper(term[j])

Matches(entry, term) ==
    \/ \E k \in 0..Len(entry.original) : OccursAt(entry.original, term, k)
    \/ \E k \in 0..Len(entry.translation) : OccursAt(entry.translation, term, k)

\* the entries of history that match term, in history's order
IsSelection(result, history, term) ==
    LET hits == {i \in 1..Len(history) : Matches(history[i], term)}
        nth(n) == CHOOSE i \in hits : Cardinality({j \in hits : j <= i}) = n
    IN  /\ Len(result) = Cardinality(hits)
        /\ \A n \in 1..Len(result) : result[n] = history[nth(n)]

AllTerms == SearchBoxTerms \cup {<<"B">>, <<"b", "a">>, <<"A", "B">>}

\* C10: the search shows exactly the matching entries in order, all of them
\* for the empty term, and leaves the history as it is.
SearchShowsMatches ==
    /\ [](\A term \in AllTerms :
            LET shown == filtered_history(History, term)
            IN  /\ IsSelection(shown, History, term)
                /\ term = Empty => shown = History)
    /\ [][(\E term \in SearchBoxTerms : SearchHistory(term))
            => app_state' = app_state]_vars

\* C10 witness: the term "aB" keeps the one entry it matches only when letter
\* case is ignored, and drops the other
SearchFoldsCase ==
    /\ session_state.search_term = <<"a", "B">>
    /\ Len(History) = 2
    /\ History[1].original = <<"a">> /\ History[1].translation = <<"B">>
    /\ History[2].original = <<"A", "b">> /\ History[2].translation = <<"B">>
    /\ filtered_history(History, session_state.search_term) = <<History[2]>>

\* C11: the export is nothing for an empty history, otherwise the header row and
\* one row per entry in the order of the history; exporting changes no state.
ExportIsSnapshot ==
    /\ [](LET csv == export_history(History)
          IN  IF History = <<>>
              THEN csv = Empty
              ELSE /\ Len(csv) = Len(History) + 1
                   /\ \A k \in 1..Len(csv[1]) : csv[1][k] \in DOMAIN History[Len(History)]
                                                  \/ csv[1][k] = "input_type"
                   /\ \A i \in 1..Len(History) :
                        /\ Len(csv[i + 1]) = Len(csv[1])
                        /\ \A k \in 1..Len(csv[1]) :
                             csv[1][k] \in DOMAIN History[i]
                                 => csv[i + 1][k] = History[i][csv[1][k]])
    /\ [][ExportHistory => /\ app_state' = app_state
                           /\ session_state' = session_state]_vars

\* C11 witness: the page was rendered, and with it the export, over a spoken and
\* a typed entry: three rows, the typed entry's input_type among the columns
ExportedTwoEntries ==
    /\ pc = "idle"
    /\ RenderedAll
    /\ Len(History) = 2
    /\ "input_type" \notin DOMAIN History[1]
    /\ "input_type" \in DOMAIN History[2]
    /\ Len(export_history(History)) = 3
    /\ export_history(History)[1][8] = "input_type"
    /\ export_history(History)[3][2] = History[2].original

\* how often name is the target language of an entry of history
Occurrences(history, name) ==
    Cardinality({i \in 1..Len(history) : history[i].to_lang_name = name})

FirstOccurrence(history, name) ==
    CHOOSE i \in 1..Len(history) :
        /\ history[i].to_lang_name = name
        /\ \A j \in 1..(i - 1) : history[j].to_lang_name # name

\* name has the greatest count in history, and is the earliest such name
IsStableArgmax(name, history) ==
    /\ Occurrences(history, name) > 0
    /\ \A i \in 1..Len(history) :
         LET other == history[i].to_lang_name
         IN  /\ Occurrences(history, other) <= Occurrences(history, name)
             /\ Occurrences(history, other) = Occurrences(history, name)
                  => FirstOccurrence(history, name) <= FirstOccurrence(history, other)

StatsNames == {capitalize(spanish), capitalize(english), capitalize(hebrew)}

MaxStatsLen == 4

StatsHistories ==
    UNION { { [k \in 1..n |-> [to_lang_name |-> f[k]]] : f \in [1..n -> StatsNames] } :
            n \in 1..MaxStatsLen }

\* the statistic over every list of up to MaxStatsLen names, e.g. the counts
\* {Spanish: 3, Hebrew: 1} in each of their orders
StatsHistoriesHold ==
    \A h \in StatsHistories : IsStableArgmax(most_used_language(h), h)

\* C12: the most used language is the target language name of the greatest
\* count, the earliest in the history among equals; it is None for an empty
\* history (checked on the history of every state and on every list of up to
\* MaxStatsLen names).
MostUsedIsStableArgmax ==
    /\ IF History = <<>>
       THEN most_used_language(History) = NoLanguage
       ELSE IsStableArgmax(most_used_language(History), History)
    /\ most_used_language(<<>>) = NoLanguage
    /\ StatsHistoriesHold

\* C12 witness: the statistics were shown over two entries of different target
\* languages, and the earlier one is the most used
MostUsedOfATie ==
    /\ pc = "idle"
    /\ StatsShown
    /\ Len(History) = 2
    /\ History[1].to_lang_name # History[2].to_lang_name
    /\ most_used_language(History) = History[1].to_lang_name

\* C13: saving the current translation changes nothing when there is no result;
\* when there is one it appends the last entry of the history to the favorites
\* and leaves the history, the result and the counter as they are.
SaveAppendsLatestEntry ==
    [][/\ app_state.translated_text = Empty
          => save_to_favorites(app_state).state = app_state
       /\ (SaveToFavorites /\ app_state.translated_text # Empty)
          => /\ History # <<>>
             /\ app_state'.favorites = Append(app_state.favorites, History[Len(History)])
             /\ app_state'.conversation_history = History
             /\ app_state'.translated_text = app_state.translated_text
             /\ app_state'.total_translations = app_state.total_translations]_vars

\* C14: clearing the history empties it and leaves the favorites, the counter,
\* the start time and the result as they are.
ClearHistoryKeepsTheRest ==
    [][ClearHistory
        => /\ app_state'.conversation_history = <<>>
           /\ app_state'.favorites = app_state.favorites
           /\ app_state'.total_translations = app_state.total_translations
           /\ app_state'.start_time = app_state.start_time
           /\ app_state'.translated_text = app_state.translated_text]_vars

\* C14 witness: the history was cleared after a translation that is still the
\* result and is still among the favorites
ClearedWithFavorite ==
    /\ pc = "idle"
    /\ History = <<>>
    /\ app_state.total_translations > 0
    /\ app_state.favorites # <<>>
    /\ app_state.translated_text # Empty

\* C15: a new translation empties the result, sets the status to 'Ready to
\* translate' of the ready class, and leaves the history, the favorites, the
\* settings and the counter as they are.
NewTranslationResets ==
    [][NewTranslation
        => /\ app_state'.translated_text = Empty
           /\ app_state'.status = "Ready to translate"
           /\ app_state'.status_class = "status-ready"
           /\ app_state'.conversation_history = History
           /\ app_state'.favorites = app_state.favorites
           /\ app_state'.settings = app_state.settings
           /\ app_state'.total_translations = app_state.total_translations]_vars

\* C15 witness: the result was dismissed after a translation that is in the
\* history and among the favorites
ResultDismissed ==
    /\ pc = "idle"
    /\ app_state.translated_text = Empty
    /\ app_state.status = "Ready to translate"
    /\ app_state.status_class = "status-ready"
    /\ app_state.total_translations > 0
    /\ History # <<>>
    /\ app_state.favorites # <<>>

\* a translation of a non-blank text that the gateway answers
SuccessfulTranslation ==
    \/ /\ strip(frame.spoken_text) # Empty
       /\ \E text \in Translations :
              TranslateSpeech(Translated(text), MaxTranslationsHistory)
    \/ /\ strip(session_state.text_input) # Empty
       /\ \E text \in Translations :
              TranslateText(Translated(text), MaxTranslationsHistory)

\* C16: the counter grows by one on every successful translation and stays as
\* it is on every other step, whatever happens to the history.
CounterCountsSuccesses ==
    [][/\ app_state'.total_translations >= app_state.total_translations
       /\ app_state'.total_translations =
              app_state.total_translations + (IF SuccessfulTranslation THEN 1 ELSE 0)]_vars

\* C16 witness: more translations were counted than the history may hold, and
\* the history was cleared since
CountedBeyondHistory ==
    /\ pc = "idle"
    /\ app_state.settings.max_history = MinMaxHistory
    /\ app_state.total_translations = MinMaxHistory + 1
    /\ History = <<>>

\* C17: the settings are always well-formed: max_history in 5..100,
\* speech_timeout in 1..15, theme light or dark, show_stats a boolean.
SettingsWellFormed ==
    /\ app_state.settings.max_history \in MinMaxHistory..MaxMaxHistory
    /\ app_state.settings.speech_timeout \in MinSpeechTimeout..MaxSpeechTimeout
    /\ app_state.settings.theme \in {theme_light, theme_dark}
    /\ app_state.settings.show_stats \in BOOLEAN
    /\ DOMAIN app_state.settings =
           {"max_history", "speech_timeout", "theme", "show_stats"}

\* C17 witness: every setting was moved away from its default, the numbers to
\* the upper ends of their ranges
SettingsAtUpperEnds ==
    /\ pc = "idle"
    /\ app_state.settings.max_history = MaxMaxHistory
    /\ app_state.settings.speech_timeout = MaxSpeechTimeout
    /\ app_state.settings.theme = theme_dark
    /\ app_state.settings.show_stats = FALSE

\* the steps of a speech translation that end it
SpeechEnds == pc # "idle" /\ pc' = "idle"

\* C18: a speech translation shows Preparing, Listening, Processing and
\* Translating in this order, each once; a failure goes straight to an error
\* status; the translation ends ready or in error; and the status becomes
\* 'Translation complete' only with the counter incremented, the result
\* replaced and the entry appended.
SpeechPhasesInOrder ==
    [][/\ app_state'.status = "Preparing to listen..."
          => (pc = "idle" /\ pc' = "preparing") \/ app_state.status = app_state'.status
       /\ app_state'.status = "Listening..."
          => app_state.status \in {"Preparing to listen...", "Listening..."}
       /\ app_state'.status = "Processing speech..."
          => app_state.status \in {"Listening...", "Processing speech..."}
       /\ (app_state'.status = "Translating..." /\ pc' = "translating")
          => app_state.status \in {"Processing speech...", "Translating..."}
       /\ (pc # "idle" /\ app_state'.status # app_state.status)
          => \/ <<pc, pc'>> \in {<<"preparing", "listening">>,
                                 <<"listening", "recognizing">>,
                                 <<"recognizing", "translating">>}
             \/ SpeechEnds
       /\ (SpeechFailure \/ TranslateSpeech(TranslateError, MaxTranslations))
          => app_state'.status_class = "status-error"
       /\ SpeechEnds
          => app_state'.status_class \in {"status-ready", "status-error"}
       /\ (SpeechEnds /\ app_state'.status = "Translation complete")
          => /\ app_state'.total_translations = app_state.total_translations + 1
             /\ app_state'.translated_text # Empty
             /\ app_state'.translated_text[1].original = frame.spoken_text
             /\ app_state'.conversation_history # <<>>
             /\ app_state'.conversation_history[Len(app_state'.conversation_history)].original
                    = frame.spoken_text]_vars

InFavorites(entry) ==
    \E k \in 1..Len(app_state.favorites) : app_state.favorites[k] = entry

\* the entries the history tab shows, newest first
ShownEntries ==
    reversed(filtered_history(History, session_state.search_term))

\* C19: adding a history entry to the favorites appends it when no equal entry
\* is among them and changes nothing otherwise, so that adding it twice is
\* adding it once.
AddToFavoritesIsIdempotent ==
    /\ [](\A i \in 1..Len(History) :
            LET once == add_to_favorites(app_state, History[i])
                twice == add_to_favorites(once, History[i])
            IN  /\ twice = once
                /\ once.favorites = IF InFavorites(History[i])
                                    THEN app_state.favorites
                                    ELSE Append(app_state.favorites, History[i])
                /\ [once EXCEPT !.favorites = app_state.favorites] = app_state)
    /\ [][\A i \in 0..(MaxTranslationsSearch - 1) :
            AddToFavorites(i)
            => /\ i + 1 <= Len(ShownEntries)
               /\ app_state'.favorites =
                      IF InFavorites(ShownEntries[i + 1])
                      THEN app_state.favorites
                      ELSE Append(app_state.favorites, ShownEntries[i + 1])]_vars

\* C19 witness: the older of two entries was added to the favorites from the
\* history tab
OlderEntryIsFavorite ==
    /\ pc = "idle"
    /\ RenderedAll
    /\ Len(History) = 2
    /\ History[1] # History[2]
    /\ app_state.favorites = <<History[1]>>
    /\ add_to_favorites(app_state, History[1]) = app_state

SettingsAction ==
    \/ \E value \in MaxHistoryInputs : ChangeMaxHistory(value)
    \/ \E value \in SpeechTimeoutInputs : ChangeSpeechTimeout(value)
    \/ \E k \in 1..Len(ThemeOptions) : ChangeTheme(ThemeOptions[k])
    \/ ChangeShowStats
    \/ ResetSettings

\* C20: changing a setting and resetting the settings leave the history, the
\* favorites, the result, the counter and the start time as they are.
SettingsActionsKeepTheRest ==
    [][SettingsAction
        => /\ app_state'.conversation_history = History
           /\ app_state'.favorites = app_state.favorites
           /\ app_state'.translated_text = app_state.translated_text
           /\ app_state'.total_translations = app_state.total_translations
           /\ app_state'.start_time = app_state.start_time]_vars

\* C20 witness: with a translation in the history, in the result panel and among
\* the favorites, settings were changed and the others then reset
SettingsMovedAroundTranslation ==
    /\ pc = "idle"
    /\ History # <<>>
    /\ app_state.favorites = History
    /\ app_state.translated_text # Empty
    /\ app_state.total_translations = 1
    /\ app_state.settings.max_history = MinMaxHistory
    /\ app_state.settings.speech_timeout = DefaultSpeechTimeout
    /\ session_state.speech_timeout_setting = DefaultSpeechTimeout
    /\ app_state.settings.theme = theme_light
    /\ app_state.settings.show_stats = FALSE

SaveAction ==
    \/ SaveToFavorites
    \/ \E i \in 0..(MaxTranslationsHistory - 1) : AddToFavorites(i)

IsSuffixPlusOne(new, old) ==
    /\ new # <<>>
    /\ \E k \in 0..Len(old) :
           SubSeq(new, 1, Len(new) - 1) = SubSeq(old, k + 1, Len(old))

\* C22: every step leaves the history as it is, or empty when it is cleared, or
\* a suffix of what it was followed by one new entry; no entry is changed,
\* moved or inserted elsewhere.
HistoryChangesAtItsEnds ==
    [][\/ app_state'.conversation_history = History
       \/ ClearHistory /\ app_state'.conversation_history = <<>>
       \/ /\ SuccessfulTranslation
          /\ IsSuffixPlusOne(app_state'.conversation_history, History)]_vars

\* C22 witness: a typed entry was appended to a full history that began with a
\* spoken one, and the history is at its limit
AppendedToFullHistory ==
    /\ pc = "idle"
    /\ app_state.settings.max_history = MinMaxHistory
    /\ Len(History) = MinMaxHistory
    /\ app_state.total_translations = MinMaxHistory + 1
    /\ "input_type" \in DOMAIN History[Len(History)]
    /\ "input_type" \notin DOMAIN History[1]

\* the steps of translate_speech() and of translate_and_speak()
SpeechStep ==
    \/ OpenMicrophone(TRUE)
    \/ Listen(TRUE)
    \/ SpeechFailure
    \/ Recognize(<<"b">>)
    \/ \E text \in Translations : TranslateSpeech(Translated(text), MaxTranslations)
    \/ TranslateSpeech(TranslateError, MaxTranslations)

SpeechStep2 ==
    \/ OpenMicrophone2(TRUE)
    \/ Listen2(TRUE)
    \/ SpeechFailure2
    \/ Recognize2(<<"b">>)
    \/ \E text \in Translations : TranslateSpeech2(Translated(text))
    \/ TranslateSpeech2(TranslateError)
    \/ Speak2(TRUE)
    \/ Speak2(FALSE)

History2 == app2_state.conversation_history

\* C24: in app2.py the result and the history entry are recorded before the
\* playback starts, and the status becomes 'Translation complete' only by the
\* step that ends the playback; it is never that while the audio plays.
PlaybackBlocksCompletion ==
    /\ [](pc2 = "speaking"
            => /\ app2_state.status = "Translating..."
               /\ app2_state.translated_text =
                      result_text2(frame2.spoken_text, frame2.translated_text,
                                   current_from_lang2, current_to_lang2)
               /\ History2 # <<>>
               /\ History2[Len(History2)] =
                      history_entry2(frame2.spoken_text, frame2.translated_text,
                                     current_from_lang2, current_to_lang2))
    /\ [][/\ (app2_state'.status = "Translation complete"
                 /\ app2_state.status # "Translation complete")
             => /\ Speak2(TRUE) \/ Speak2(FALSE)
                /\ pc2 = "speaking" /\ pc2' = "idle"
                /\ app2_state'.translated_text = app2_state.translated_text
                /\ app2_state'.conversation_history = History2
          /\ (\E text \in Translations : TranslateSpeech2(Translated(text)))
             => pc2' = "speaking"]_vars

\* C24 witness: the second translation is being played, the first one complete
PlayingSecondTranslation ==
    /\ pc2 = "speaking"
    /\ Len(History2) = 2
    /\ app2_state.status = "Translating..."
    /\ frame2.translated_text # Empty

\* names and codes the directory does not hold; "iw" is a code of LANGUAGES
\* that language_code_to_name has no entry for
UnknownNames == {<<"k","l","i","n","g","o","n">>, <<"K","l">>, <<"e","n">>, Empty}

UnknownCodes == {<<"x","x">>, <<"i","w">>, <<"z","h","-","C","N">>, Empty}

\* the directory over its names, and over names and codes it does not hold
DirectoryRoundTrips ==
    /\ \A name \in LanguageNames :
         /\ get_language_code(name) \in LanguageCodes
         /\ get_language_name(get_language_code(name)) = capitalize(name)
         /\ get_language_name(get_language_code(capitalize(name))) = capitalize(name)
    /\ \A name \in UnknownNames :
         /\ lower(name) \notin LanguageNames
         /\ get_language_code(name) = name
    /\ \A code \in UnknownCodes :
         /\ code \notin DOMAIN language_code_to_name
         /\ get_language_name(code) = capitalize(code)
    /\ \E i, j \in 1..Len(LANGUAGES) : i # j /\ LANGUAGES[i][2] = LANGUAGES[j][2]

\* C25: the name of the code of a name of the directory is that name
\* capitalized, also for a name that two codes share; a name that is not in
\* it is its own code, and a code that is not in it is its own name,
\* capitalized.  The entries of the history carry the names so obtained.
LanguageNamesRoundTrip ==
    /\ DirectoryRoundTrips
    /\ current_to_lang = get_language_code(session_state.to_lang_select)
    /\ get_language_name(current_to_lang) = capitalize(session_state.to_lang_select)
    /\ get_language_name(current_from_lang) = capitalize(session_state.from_lang_select)
    /\ \A i \in 1..Len(History) :
         /\ History[i].to_lang_name = get_language_name(History[i].to_lang)
         /\ History[i].to_lang_name \in {capitalize(n) : n \in LanguageNames}
         /\ get_language_code(History[i].to_lang_name) = History[i].to_lang

\* C25 witness: a translation into hebrew, the name of two codes, is in the
\* history under the code "he" and the name "Hebrew"
TranslatedIntoHebrew ==
    /\ pc = "idle"
    /\ session_state.to_lang_select = hebrew
    /\ History # <<>>
    /\ History[Len(History)].to_lang = <<"h","e">>
    /\ History[Len(History)].to_lang_name = <<"H","e","b","r","e","w">>

\* entry is the history entry of the translation that result shows
Describes(entry, result) ==
    /\ entry.original = result.original
    /\ entry.translation = result.translation
    /\ entry.from_lang_name = result.from_lang
    /\ entry.to_lang_name = result.to_lang

\* C26: when there is a result and the history is not empty, the last entry of
\* the history is the one of the result, so that saving the current
\* translation stores no other translation.
LastEntryIsTheResult ==
    /\ [](app_state.translated_text # Empty /\ History # <<>>
            => Describes(History[Len(History)], app_state.translated_text[1]))
    /\ [][(SaveToFavorites /\ app_state'.favorites # app_state.favorites)
            => Describes(app_state'.favorites[Len(app_state'.favorites)],
                         app_state.translated_text[1])]_vars

\* C26 witness: of two different translations the one shown was saved
SavedTheOneShown ==
    /\ pc = "idle"
    /\ Len(History) = 2
    /\ History[1].original # History[2].original
    /\ app_state.translated_text # Empty
    /\ app_state.translated_text[1].original = History[2].original
    /\ app_state.favorites = <<History[2]>>

\* C27: the history never holds more entries than translations were counted,
\* and it grows only in a step that counts one.
HistoryWithinCounter ==
    /\ [](Len(History) <= app_state.total_translations)
    /\ [][Len(app_state'.conversation_history) > Len(History)
            => /\ Len(app_state'.conversation_history) = Len(History) + 1
               /\ app_state'.total_translations = app_state.total_translations + 1]_vars

\* C27 witness: every translation counted is in the history, which is full
EveryTranslationInHistory ==
    /\ pc = "idle"
    /\ app_state.settings.max_history = MinMaxHistory
    /\ Len(History) = MinMaxHistory
    /\ app_state.total_translations = MinMaxHistory

====
